---- MODULE Spec2Model ----
(***************************************************************************)
(* compare_allele_frequencies.py: comparison of per-clade allele-frequency *)
(* tables.  Dictionaries are insertion ordered in Python, so every dict is *)
(* a sequence of <<key, value>> pairs with distinct keys.  Floats are      *)
(* fixed-point integers in units of 1/3 of 1e-6 (so that no value lies     *)
(* exactly half way between two 6-decimal numbers); NaN is a sentinel on   *)
(* which every comparison is false and which every sum or difference       *)
(* propagates, as IEEE-754 floats do in Python.                            *)
(***************************************************************************)
EXTENDS Integers, Sequences, FiniteSets, TLC

VARIABLES
    pc,                     \* position of main()
    argv_file_list,         \* args.file_list: the tokens given on the command line
    fs,                     \* the file system: path -> sequence of lines
    miss_tolerance,         \* args.miss_tolerance
    error_tolerance,        \* args.error_tolerance
    num_div_loci,           \* args.num_div_loci
    file_list,              \* main's file_list: sequence of <<path, n_indv>>
    all_alleles,
    fixed_alleles,
    unique_fixed_alleles,
    private_alleles,
    private_sites,
    uniquely_missing_sites,
    divergence_scores,
    sorted_loci,            \* write_most_divergent_loci's ranked list
    written,                \* the output files opened for writing so far
    error                   \* the exception that ended the run, or "none"

vars == <<pc, argv_file_list, fs, miss_tolerance, error_tolerance,
          num_div_loci, file_list, all_alleles, fixed_alleles,
          unique_fixed_alleles, private_alleles, private_sites,
          uniquely_missing_sites, divergence_scores, sorted_loci, written, error>>

----------------------------------------------------------------------------
(* Floats *)

One == 3000000
Half == One \div 2
NaN == -1

IsNaN(x) == x = NaN
FGt(a, b) == ~IsNaN(a) /\ ~IsNaN(b) /\ a > b
FLt(a, b) == ~IsNaN(a) /\ ~IsNaN(b) /\ a < b
FGe(a, b) == ~IsNaN(a) /\ ~IsNaN(b) /\ a >= b
FAdd(a, b) == IF IsNaN(a) \/ IsNaN(b) THEN NaN ELSE a + b
FSub(a, b) == IF IsNaN(a) \/ IsNaN(b) THEN NaN ELSE a - b

\* round(x, 6): the nearest multiple of 1e-6 (3 units); NaN stays NaN
Round6(x) == IF IsNaN(x) THEN NaN ELSE ((x + 1) \div 3) * 3

\* Python's max(values): keeps the first item, replaces it when a later one is >
RECURSIVE PyMaxFrom(_, _, _)
PyMaxFrom(s, i, m) ==
    IF i > Len(s) THEN m
    ELSE PyMaxFrom(s, i + 1, IF FGt(s[i], m) THEN s[i] ELSE m)
PyMax(s) == PyMaxFrom(s, 2, s[1])

\* Python's min(values)
RECURSIVE PyMinFrom(_, _, _)
PyMinFrom(s, i, m) ==
    IF i > Len(s) THEN m
    ELSE PyMinFrom(s, i + 1, IF FLt(s[i], m) THEN s[i] ELSE m)
PyMin(s) == PyMinFrom(s, 2, s[1])

----------------------------------------------------------------------------
(* Insertion-ordered dicts: sequences of <<key, value>> *)

Values(d) == [i \in 1..Len(d) |-> d[i][2]]
KeySet(d) == {d[i][1] : i \in 1..Len(d)}
Has(d, k) == \E i \in 1..Len(d) : d[i][1] = k
IndexOf(d, k) == CHOOSE i \in 1..Len(d) : d[i][1] = k
Get(d, k) == d[IndexOf(d, k)][2]
\* d[k] = v: a new key goes last, an old key keeps its place
Put(d, k, v) ==
    IF Has(d, k) THEN [d EXCEPT ![IndexOf(d, k)] = <<k, v>>]
    ELSE Append(d, <<k, v>>)
\* d.get(k, default)
GetOr(d, k, default) == IF Has(d, k) THEN Get(d, k) ELSE default

\* mutant of PyArgMax: a tie goes to the last key
RECURSIVE PyArgMaxLastFrom(_, _, _)
PyArgMaxLastFrom(d, i, b) ==
    IF i > Len(d) THEN d[b][1]
    ELSE PyArgMaxLastFrom(d, i + 1, IF FGe(d[i][2], d[b][2]) THEN i ELSE b)
PyArgMax_LastTie(d) == PyArgMaxLastFrom(d, 2, 1)

\* max(d, key=d.get): the first key, in insertion order, whose value no later one exceeds
RECURSIVE PyArgMaxFrom(_, _, _)
PyArgMaxFrom(d, i, b) ==
    IF i > Len(d) THEN d[b][1]
    ELSE PyArgMaxFrom(d, i + 1, IF FGt(d[i][2], d[b][2]) THEN i ELSE b)
PyArgMax(d) == PyArgMaxFrom(d, 2, 1)

----------------------------------------------------------------------------
(* identify_fixed_alleles *)

\* mutant of IsFixed: the genotyped fraction must exceed the tolerance
IsFixed_StrictMiss(rec, miss, err) ==
    /\ rec.perc_genotyped > miss
    /\ FGe(PyMax(Values(rec.allele_freqs)), One - err)

\* the test of line 47 on one clade record
IsFixed(rec, miss, err) ==
    /\ rec.perc_genotyped >= miss
    /\ FGe(PyMax(Values(rec.allele_freqs)), One - err)

\* the (clade, allele_freqs) list that one locus appends, in clade order
RECURSIVE FixedAt(_, _, _, _)
FixedAt(clade_data, i, miss, err) ==
    IF i > Len(clade_data) THEN <<>>
    ELSE (IF IsFixed(clade_data[i][2], miss, err)
          THEN << <<clade_data[i][1], clade_data[i][2].allele_freqs>> >>
          ELSE <<>>) \o FixedAt(clade_data, i + 1, miss, err)

RECURSIVE IdentifyFixedFrom(_, _, _, _)
IdentifyFixedFrom(table, i, miss, err) ==
    IF i > Len(table) THEN <<>>
    ELSE LET entries == FixedAt(table[i][2], 1, miss, err)
         IN (IF entries # <<>> THEN << <<table[i][1], entries>> >> ELSE <<>>)
            \o IdentifyFixedFrom(table, i + 1, miss, err)

identify_fixed_alleles(table, miss, err) == IdentifyFixedFrom(table, 1, miss, err)

----------------------------------------------------------------------------
(* find_unique_fixed_alleles *)

\* fixed_alleles_per_clade: clade -> its frequency-maximizing allele
RECURSIVE FixedAllelesPerClade(_, _)
FixedAllelesPerClade(clade_data, i) ==
    IF i = 0 THEN <<>>
    ELSE Put(FixedAllelesPerClade(clade_data, i - 1),
             clade_data[i][1], PyArgMax(clade_data[i][2]))

\* the test of lines 60-65 on one locus
IsUniqueFixed(clade_data) ==
    LET per_clade == FixedAllelesPerClade(clade_data, Len(clade_data))
    IN \/ Len(clade_data) = 1
       \/ Cardinality({per_clade[j][2] : j \in 1..Len(per_clade)}) = Len(per_clade)

RECURSIVE FindUniqueFrom(_, _)
FindUniqueFrom(fixed, i) ==
    IF i > Len(fixed) THEN <<>>
    ELSE (IF IsUniqueFixed(fixed[i][2]) THEN << fixed[i] >> ELSE <<>>)
         \o FindUniqueFrom(fixed, i + 1)

find_unique_fixed_alleles(fixed) == FindUniqueFrom(fixed, 1)

----------------------------------------------------------------------------
(* identify_private_alleles *)

\* mutant of SkipLocus: only a NaN frequency skips the locus
SkipLocus_NaNOnly(clade_data) ==
    \E i \in 1..Len(clade_data) :
        \E j \in 1..Len(clade_data[i][2].allele_freqs) :
            IsNaN(clade_data[i][2].allele_freqs[j][2])

\* the test of lines 73-75: the locus is skipped
SkipLocus(clade_data) ==
    \E i \in 1..Len(clade_data) :
        \/ clade_data[i][2].perc_genotyped = 0
        \/ \E j \in 1..Len(clade_data[i][2].allele_freqs) :
               IsNaN(clade_data[i][2].allele_freqs[j][2])

\* the alleles of one clade with frequency > error_tolerance
AllelesAbove(allele_freqs, err) ==
    {allele_freqs[j][1] : j \in {j2 \in 1..Len(allele_freqs) : FGt(allele_freqs[j2][2], err)}}

\* mutant of OtherCladesAlleles: only the clades read before clade i
OtherCladesAlleles_EarlierOnly(clade_data, i, err) ==
    UNION {AllelesAbove(clade_data[k][2].allele_freqs, err) : k \in 1..(i - 1)}

\* other_clades_alleles of the clade at index i
OtherCladesAlleles(clade_data, i, err) ==
    UNION {AllelesAbove(clade_data[k][2].allele_freqs, err) :
             k \in {k2 \in 1..Len(clade_data) : clade_data[k2][1] # clade_data[i][1]}}

\* private_alleles_set of the clade at index i: allele -> {freq, perc_genotyped}
RECURSIVE PrivateAllelesSet(_, _, _, _)
PrivateAllelesSet(clade_data, i, j, err) ==
    LET rec == clade_data[i][2]
        af == rec.allele_freqs
    IN IF j > Len(af) THEN <<>>
       ELSE (IF FGt(af[j][2], err) /\ af[j][1] \notin OtherCladesAlleles(clade_data, i, err)
             THEN << <<af[j][1], [freq |-> af[j][2], perc_genotyped |-> rec.perc_genotyped]>> >>
             ELSE <<>>) \o PrivateAllelesSet(clade_data, i, j + 1, err)

RECURSIVE PrivateAllelesAtPos(_, _, _)
PrivateAllelesAtPos(clade_data, i, err) ==
    IF i > Len(clade_data) THEN <<>>
    ELSE LET set == PrivateAllelesSet(clade_data, i, 1, err)
         IN (IF set # <<>> THEN << <<clade_data[i][1], set>> >> ELSE <<>>)
            \o PrivateAllelesAtPos(clade_data, i + 1, err)

RECURSIVE IdentifyPrivateFrom(_, _, _)
IdentifyPrivateFrom(table, i, err) ==
    IF i > Len(table) THEN <<>>
    ELSE LET at_pos == IF SkipLocus(table[i][2]) THEN <<>>
                       ELSE PrivateAllelesAtPos(table[i][2], 1, err)
         IN (IF at_pos # <<>> THEN << <<table[i][1], at_pos>> >> ELSE <<>>)
            \o IdentifyPrivateFrom(table, i + 1, err)

identify_private_alleles(table, err) == IdentifyPrivateFrom(table, 1, err)

----------------------------------------------------------------------------
(* find_private_sites *)

\* mutant of GenotypedClades: perc_genotyped >= 0
RECURSIVE GenotypedClades_All(_, _)
GenotypedClades_All(clade_data, i) ==
    IF i > Len(clade_data) THEN <<>>
    ELSE (IF clade_data[i][2].perc_genotyped >= 0
          THEN << <<clade_data[i][1], clade_data[i][2].perc_genotyped>> >>
          ELSE <<>>) \o GenotypedClades_All(clade_data, i + 1)

\* genotyped_clades: clade -> perc_genotyped, for the clades with perc_genotyped > 0
RECURSIVE GenotypedClades(_, _)
GenotypedClades(clade_data, i) ==
    IF i > Len(clade_data) THEN <<>>
    ELSE (IF clade_data[i][2].perc_genotyped > 0
          THEN << <<clade_data[i][1], clade_data[i][2].perc_genotyped>> >>
          ELSE <<>>) \o GenotypedClades(clade_data, i + 1)

MissingClades(clade_data) ==
    {clade_data[i][1] : i \in {k \in 1..Len(clade_data) : clade_data[k][2].perc_genotyped = 0}}

\* the test of line 107
IsPrivateSite(clade_data) ==
    Len(GenotypedClades(clade_data, 1)) = 1 /\ Cardinality(MissingClades(clade_data)) > 0

\* mutant of IsUniquelyMissing: one genotyped clade is enough
IsUniquelyMissing_OneGenotyped(clade_data) ==
    Len(GenotypedClades(clade_data, 1)) >= 1 /\ Cardinality(MissingClades(clade_data)) = 1

\* the test of line 111
IsUniquelyMissing(clade_data) ==
    Len(GenotypedClades(clade_data, 1)) > 1 /\ Cardinality(MissingClades(clade_data)) = 1

RECURSIVE PrivateSitesFrom(_, _)
PrivateSitesFrom(table, i) ==
    IF i > Len(table) THEN <<>>
    ELSE (IF IsPrivateSite(table[i][2])
          THEN << <<table[i][1], GenotypedClades(table[i][2], 1)[1]>> >>
          ELSE <<>>) \o PrivateSitesFrom(table, i + 1)

RECURSIVE UniquelyMissingFrom(_, _)
UniquelyMissingFrom(table, i) ==
    IF i > Len(table) THEN <<>>
    ELSE (IF IsUniquelyMissing(table[i][2])
          THEN << <<table[i][1], GenotypedClades(table[i][2], 1)>> >>
          ELSE <<>>) \o UniquelyMissingFrom(table, i + 1)

\* returns the pair (private_sites, uniquely_missing_sites)
find_private_sites(table) == <<PrivateSitesFrom(table, 1), UniquelyMissingFrom(table, 1)>>

----------------------------------------------------------------------------
(* compute_divergence_scores *)

\* all_alleles_set: the union of the alleles of every clade at the locus
AllAllelesSet(clade_data) ==
    UNION {KeySet(clade_data[i][2].allele_freqs) : i \in 1..Len(clade_data)}

\* freqs of line 135: the allele's frequency in each clade, 0.0 where absent
Freqs(clade_data, allele) ==
    [i \in 1..Len(clade_data) |-> GetOr(clade_data[i][2].allele_freqs, allele, 0)]

\* max_diff: the loop of lines 133-136 over the set
RECURSIVE MaxDiff(_, _)
MaxDiff(clade_data, alleles) ==
    IF alleles = {} THEN 0
    ELSE LET a == CHOOSE x \in alleles : TRUE
             freqs == Freqs(clade_data, a)
         IN FAdd(MaxDiff(clade_data, alleles \ {a}), FSub(PyMax(freqs), PyMin(freqs)))

RECURSIVE TotalGenotyped(_, _)
TotalGenotyped(clade_data, i) ==
    IF i = 0 THEN 0
    ELSE TotalGenotyped(clade_data, i - 1) + clade_data[i][2].perc_genotyped

\* total_genotyped / num_clades, kept as the exact quotient
AvgGenotyped(clade_data) ==
    [num |-> TotalGenotyped(clade_data, Len(clade_data)), den |-> Len(clade_data)]

RECURSIVE DivergenceFrom(_, _)
DivergenceFrom(table, i) ==
    IF i > Len(table) THEN <<>>
    ELSE (IF Len(table[i][2]) < 2 THEN <<>>
          ELSE << <<table[i][1],
                    <<MaxDiff(table[i][2], AllAllelesSet(table[i][2])),
                      AvgGenotyped(table[i][2])>> >> >>)
         \o DivergenceFrom(table, i + 1)

compute_divergence_scores(table) == DivergenceFrom(table, 1)

----------------------------------------------------------------------------
(* write_most_divergent_loci: the ranking *)

\* filtered_scores: the entries whose score is not NaN
FilteredScores(scores) == SelectSeq(scores, LAMBDA e : ~IsNaN(e[2][1]))

\* mutant of SortKey: the score is not rounded
SortKey_Unrounded(e) == e[2][1]

\* the sort key of line 145
SortKey(e) == Round6(e[2][1])

\* sorted(..., reverse=True) is stable: an item goes behind every item placed
\* before it whose key is >= its own
RECURSIVE InsertDesc(_, _)
InsertDesc(sorted, e) ==
    IF sorted = <<>> THEN <<e>>
    ELSE IF SortKey(Head(sorted)) >= SortKey(e)
         THEN <<Head(sorted)>> \o InsertDesc(Tail(sorted), e)
         ELSE <<e>> \o sorted

RECURSIVE SortedDescFrom(_, _)
SortedDescFrom(items, i) ==
    IF i = 0 THEN <<>>
    ELSE InsertDesc(SortedDescFrom(items, i - 1), items[i])

SortedDesc(items) == SortedDescFrom(items, Len(items))

\* s[:n]
PySlice(s, n) ==
    LET stop == IF n >= 0 THEN (IF n < Len(s) THEN n ELSE Len(s))
                ELSE (IF Len(s) + n > 0 THEN Len(s) + n ELSE 0)
    IN SubSeq(s, 1, stop)

SortedLoci(scores, n) == PySlice(SortedDesc(FilteredScores(scores)), n)

----------------------------------------------------------------------------
(* main: the command line *)

\* int(text): the texts that parse, and their values
IntTexts == {"0", "1", "2", "3"}
IntOf(text) == CASE text = "0" -> 0 [] text = "1" -> 1 [] text = "2" -> 2 [] text = "3" -> 3

\* file.split('/')[-1].replace('.frq', '')
CladeName(path) ==
    CASE path = "A.frq" -> "A" [] path = "B.frq" -> "B" [] path = "C.frq" -> "C"
      [] path = "D.frq" -> "D" [] OTHER -> path

IsFile(files, path) == path \in DOMAIN files

\* line.strip().split() of each line of the file: a manifest holds its lines as
\* token sequences; a .frq file has a header of 5 tab-separated names and rows
\* of 4 + N_ALLELES cells
Parts(files, path) ==
    IF files[path].kind = "manifest" THEN files[path].lines
    ELSE << <<"CHROM", "POS", "N_ALLELES", "N_CHR", "{ALLELE:FREQ}">> >>
         \o [i \in 1..Len(files[path].rows) |->
               [j \in 1..(4 + Len(files[path].rows[i].cells)) |-> "cell"]]

\* lines 247-252: None is a ValueError raised on the way
RECURSIVE ReadManifest(_, _)
ReadManifest(parts, i) ==
    IF i = 0 THEN [ok |-> TRUE, list |-> <<>>]
    ELSE LET before == ReadManifest(parts, i - 1)
         IN IF ~before.ok THEN before
            ELSE IF Len(parts[i]) # 2 \/ parts[i][2] \notin IntTexts
                 THEN [ok |-> FALSE, list |-> <<>>]
                 ELSE [ok |-> TRUE,
                       list |-> Append(before.list, <<parts[i][1], IntOf(parts[i][2])>>)]

\* mutant of ReadFlat: an odd list loses its last token instead of raising
ReadFlat_Truncating(tokens) ==
    IF \E i \in 1..(Len(tokens) \div 2) : tokens[2 * i] \notin IntTexts
    THEN [ok |-> FALSE, list |-> <<>>]
    ELSE [ok |-> TRUE,
          list |-> [i \in 1..(Len(tokens) \div 2) |->
                       <<tokens[2 * i - 1], IntOf(tokens[2 * i])>>]]

\* lines 255-257
ReadFlat(tokens) ==
    IF Len(tokens) % 2 # 0 THEN [ok |-> FALSE, list |-> <<>>]
    ELSE IF \E i \in 1..(Len(tokens) \div 2) : tokens[2 * i] \notin IntTexts
         THEN [ok |-> FALSE, list |-> <<>>]
         ELSE [ok |-> TRUE,
               list |-> [i \in 1..(Len(tokens) \div 2) |->
                            <<tokens[2 * i - 1], IntOf(tokens[2 * i])>>]]

\* lines 244-257
ResolveFileList(files, tokens) ==
    IF Len(tokens) = 1 /\ IsFile(files, tokens[1])
    THEN ReadManifest(Parts(files, tokens[1]), Len(Parts(files, tokens[1])))
    ELSE ReadFlat(tokens)

----------------------------------------------------------------------------
(* process_files *)

\* (N_CHR / 2) / n_indv, for n_indv # 0
PercGenotyped(n_chr, n_indv) == (n_chr * One) \div (2 * n_indv)

\* lines 32-36: the row's cells become the allele -> freq dict
RECURSIVE AlleleFreqs(_, _)
AlleleFreqs(cells, j) ==
    IF j = 0 THEN <<>>
    ELSE Put(AlleleFreqs(cells, j - 1), cells[j][1], cells[j][2])

\* lines 24-39 for the rows of one file: the division of line 38 raises
\* ZeroDivisionError when n_indv is 0
RECURSIVE ReadRows(_, _, _, _, _)
ReadRows(acc, rows, i, clade_name, n_indv) ==
    IF i > Len(rows) \/ acc.error # "none" THEN acc
    ELSE IF n_indv = 0 THEN [error |-> "ZeroDivisionError", table |-> acc.table]
    ELSE LET row == rows[i]
             rec == [perc_genotyped |-> PercGenotyped(row.n_chr, n_indv),
                     allele_freqs |-> AlleleFreqs(row.cells, Len(row.cells))]
             at == GetOr(acc.table, row.locus, <<>>)
         IN ReadRows([error |-> "none",
                      table |-> Put(acc.table, row.locus, Put(at, clade_name, rec))],
                     rows, i + 1, clade_name, n_indv)

RECURSIVE ProcessFrom(_, _, _, _)
ProcessFrom(acc, files, list, i) ==
    IF i > Len(list) \/ acc.error # "none" THEN acc
    ELSE IF ~IsFile(files, list[i][1])
         THEN [error |-> "FileNotFoundError", table |-> acc.table]
    ELSE ProcessFrom(ReadRows(acc, files[list[i][1]].rows, 1,
                              CladeName(list[i][1]), list[i][2]),
                     files, list, i + 1)

\* the table, or the exception that ended the reading
process_files(files, list) == ProcessFrom([error |-> "none", table |-> <<>>], files, list, 1)

----------------------------------------------------------------------------
(* main: one action per statement of lines 244-275 *)

ResultVars == <<all_alleles, fixed_alleles, unique_fixed_alleles, private_alleles,
                private_sites, uniquely_missing_sites, divergence_scores>>
ArgVars == <<argv_file_list, fs, miss_tolerance, error_tolerance, num_div_loci>>

\* lines 244-257
Resolve ==
    /\ pc = "resolve"
    /\ LET r == ResolveFileList(fs, argv_file_list)
       IN IF r.ok
          THEN /\ file_list' = r.list
               /\ pc' = "process_files"
               /\ error' = error
          ELSE /\ file_list' = file_list
               /\ pc' = "failed"
               /\ error' = "ValueError"
    /\ UNCHANGED <<ArgVars, ResultVars, sorted_loci, written>>

\* line 259
ProcessFiles ==
    /\ pc = "process_files"
    /\ LET r == process_files(fs, file_list)
       IN IF r.error = "none"
          THEN /\ all_alleles' = r.table
               /\ pc' = "identify_fixed"
               /\ error' = error
          ELSE /\ all_alleles' = all_alleles
               /\ pc' = "failed"
               /\ error' = r.error
    /\ UNCHANGED <<ArgVars, file_list, fixed_alleles, unique_fixed_alleles,
                   private_alleles, private_sites, uniquely_missing_sites,
                   divergence_scores, sorted_loci, written>>

\* line 261
IdentifyFixed ==
    /\ pc = "identify_fixed"
    /\ fixed_alleles' = identify_fixed_alleles(all_alleles, miss_tolerance, error_tolerance)
    /\ pc' = "find_unique_fixed"
    /\ UNCHANGED <<ArgVars, file_list, all_alleles, unique_fixed_alleles,
                   private_alleles, private_sites, uniquely_missing_sites,
                   divergence_scores, sorted_loci, written, error>>

\* line 262
FindUniqueFixed ==
    /\ pc = "find_unique_fixed"
    /\ unique_fixed_alleles' = find_unique_fixed_alleles(fixed_alleles)
    /\ pc' = "identify_private"
    /\ UNCHANGED <<ArgVars, file_list, all_alleles, fixed_alleles,
                   private_alleles, private_sites, uniquely_missing_sites,
                   divergence_scores, sorted_loci, written, error>>

\* line 263
IdentifyPrivate ==
    /\ pc = "identify_private"
    /\ private_alleles' = identify_private_alleles(all_alleles, error_tolerance)
    /\ pc' = "find_private_sites"
    /\ UNCHANGED <<ArgVars, file_list, all_alleles, fixed_alleles,
                   unique_fixed_alleles, private_sites, uniquely_missing_sites,
                   divergence_scores, sorted_loci, written, error>>

\* line 264
FindPrivateSites ==
    /\ pc = "find_private_sites"
    /\ private_sites' = find_private_sites(all_alleles)[1]
    /\ uniquely_missing_sites' = find_private_sites(all_alleles)[2]
    /\ pc' = "compute_divergence"
    /\ UNCHANGED <<ArgVars, file_list, all_alleles, fixed_alleles,
                   unique_fixed_alleles, private_alleles,
                   divergence_scores, sorted_loci, written, error>>

\* line 265
ComputeDivergence ==
    /\ pc = "compute_divergence"
    /\ divergence_scores' = compute_divergence_scores(all_alleles)
    /\ pc' = "write_most_divergent"
    /\ UNCHANGED <<ArgVars, file_list, all_alleles, fixed_alleles,
                   unique_fixed_alleles, private_alleles, private_sites,
                   uniquely_missing_sites, sorted_loci, written, error>>

\* line 266: write_most_divergent_loci ranks, then writes the ranked rows
WriteMostDivergentLoci ==
    /\ pc = "write_most_divergent"
    /\ sorted_loci' = SortedLoci(divergence_scores, num_div_loci)
    /\ written' = written \cup {"most_divergent_loci"}
    /\ pc' = "write_fixed"
    /\ UNCHANGED <<ArgVars, file_list, ResultVars, error>>

\* line 267
WriteFixedAlleles ==
    /\ pc = "write_fixed"
    /\ written' = written \cup {"fixed_alleles"}
    /\ pc' = "write_unique_fixed"
    /\ UNCHANGED <<ArgVars, file_list, ResultVars, sorted_loci, error>>

\* line 268
WriteUniqueFixedAlleles ==
    /\ pc = "write_unique_fixed"
    /\ written' = written \cup {"unique_fixed_alleles"}
    /\ pc' = "write_private_alleles"
    /\ UNCHANGED <<ArgVars, file_list, ResultVars, sorted_loci, error>>

\* line 269
WritePrivateAlleles ==
    /\ pc = "write_private_alleles"
    /\ written' = written \cup {"private_alleles"}
    /\ pc' = "write_private_sites"
    /\ UNCHANGED <<ArgVars, file_list, ResultVars, sorted_loci, error>>

\* lines 270-271
WritePrivateSites ==
    /\ pc = "write_private_sites"
    /\ written' = written \cup {"private_sites"}
    /\ pc' = IF Len(file_list) > 2 THEN "write_uniquely_missing" ELSE "done"
    /\ UNCHANGED <<ArgVars, file_list, ResultVars, sorted_loci, error>>

\* lines 272-273
WriteUniquelyMissingSites ==
    /\ pc = "write_uniquely_missing"
    /\ written' = written \cup {"uniquely_missing_sites"}
    /\ pc' = "done"
    /\ UNCHANGED <<ArgVars, file_list, ResultVars, sorted_loci, error>>

Next ==
    \/ Resolve
    \/ ProcessFiles
    \/ IdentifyFixed
    \/ FindUniqueFixed
    \/ IdentifyPrivate
    \/ FindPrivateSites
    \/ ComputeDivergence
    \/ WriteMostDivergentLoci
    \/ WriteFixedAlleles
    \/ WriteUniqueFixedAlleles
    \/ WritePrivateAlleles
    \/ WritePrivateSites
    \/ WriteUniquelyMissingSites

----------------------------------------------------------------------------
(* The inputs *)

MaxFreqSteps == 2      \* allele frequencies are the multiples of 1/MaxFreqSteps
MaxIndv == 1           \* expected individuals per clade: 0..MaxIndv
MaxLoci == 3           \* loci of a divergence map
MaxFiles == 3          \* input files on the command line

Locus(i) == <<"1", 100 * i>>
Alleles == {"A", "T"}
FreqVals == {(k * One) \div MaxFreqSteps : k \in 0..MaxFreqSteps}

\* the rows a frequency calculator emits: the frequencies of a genotyped site
\* sum to 1; a site with no genotyped chromosome has 0/0 = NaN for every allele
NumericMaps ==
    {<< <<a, One>> >> : a \in Alleles}
    \cup {<< <<a, x>>, <<b, One - x>> >> :
            <<a, b, x>> \in {t \in Alleles \X Alleles \X FreqVals : t[1] # t[2]}}
NaNMaps == {<< <<"A", NaN>> >>, << <<"A", NaN>>, <<"T", NaN>> >>}

PercVals == {0, Half, One}
MissVals == {0, Half, One}
ErrVals == {0, Half}

\* a clade record of the aggregated table
Records ==
    [perc_genotyped : PercVals, allele_freqs : NumericMaps]
    \cup [perc_genotyped : {0}, allele_freqs : NaNMaps]

Absent == [perc_genotyped |-> -1, allele_freqs |-> <<>>]
CladeOrder == <<"A", "B", "C">>

\* the clade -> record dict of one locus, clades in file order
RECURSIVE CladeData(_, _)
CladeData(f, i) ==
    IF i = 0 THEN <<>>
    ELSE CladeData(f, i - 1)
         \o (IF f[CladeOrder[i]] = Absent THEN <<>> ELSE << <<CladeOrder[i], f[CladeOrder[i]]>> >>)

CladeDatas ==
    {CladeData(f, Len(CladeOrder)) :
        f \in {g \in [{CladeOrder[i] : i \in 1..Len(CladeOrder)} -> Records \cup {Absent}] :
                 \E c \in DOMAIN g : g[c] # Absent}}

DefaultNumDivLoci == 200

NoFiles == [p \in {} |-> <<>>]

InitResults ==
    /\ fixed_alleles = <<>>
    /\ unique_fixed_alleles = <<>>
    /\ private_alleles = <<>>
    /\ private_sites = <<>>
    /\ uniquely_missing_sites = <<>>
    /\ divergence_scores = <<>>
    /\ sorted_loci = <<>>
    /\ written = {}
    /\ error = "none"

----------------------------------------------------------------------------
(* The classifiers on every aggregated table *)

InitTable ==
    /\ pc = "identify_fixed"
    /\ argv_file_list = <<>>
    /\ fs = NoFiles
    /\ file_list = <<>>
    /\ miss_tolerance \in MissVals
    /\ error_tolerance \in ErrVals
    /\ num_div_loci = DefaultNumDivLoci
    /\ all_alleles \in {<< <<Locus(1), cd>> >> : cd \in CladeDatas}
    /\ InitResults

NextTable ==
    \/ IdentifyFixed
    \/ FindUniqueFixed
    \/ IdentifyPrivate
    \/ FindPrivateSites
    \/ ComputeDivergence

SpecTable == InitTable /\ [][NextTable]_vars

----------------------------------------------------------------------------
(* The ranking on every divergence map *)

ScoreVals == {NaN, 0, 1, 2, 3, 4}

RECURSIVE ScoreMaps(_)
ScoreMaps(n) ==
    IF n = 0 THEN {<<>>}
    ELSE ScoreMaps(n - 1)
         \cup {Append(m, <<Locus(n), <<x, [num |-> One, den |-> 1]>> >>) :
                 <<m, x>> \in {t \in ScoreMaps(n - 1) \X ScoreVals : Len(t[1]) = n - 1}}

InitTopN ==
    /\ pc = "write_most_divergent"
    /\ argv_file_list = <<>>
    /\ fs = NoFiles
    /\ file_list = <<>>
    /\ miss_tolerance = One
    /\ error_tolerance = 0
    /\ num_div_loci \in -1..(MaxLoci + 1)
    /\ all_alleles = <<>>
    /\ fixed_alleles = <<>>
    /\ unique_fixed_alleles = <<>>
    /\ private_alleles = <<>>
    /\ private_sites = <<>>
    /\ uniquely_missing_sites = <<>>
    /\ divergence_scores \in ScoreMaps(MaxLoci)
    /\ sorted_loci = <<>>
    /\ written = {}
    /\ error = "none"

NextTopN == WriteMostDivergentLoci

SpecTopN == InitTopN /\ [][NextTopN]_vars

----------------------------------------------------------------------------
(* main on every command line *)

FrqPaths == <<"A.frq", "B.frq", "C.frq", "D.frq">>
ManifestPath == "list.txt"
CountText(n) == CASE n = 0 -> "0" [] n = 1 -> "1" [] n = 2 -> "2" [] n = 3 -> "3"

\* the data rows of one .frq file: at most one, at Locus(1)
MainRows ==
    {[locus |-> Locus(1), n_chr |-> 0, cells |-> << <<"A", NaN>>, <<"T", NaN>> >>]}
    \cup {[locus |-> Locus(1), n_chr |-> 2, cells |-> << <<"A", x>>, <<"T", One - x>> >>] :
            x \in {0, One}}
FrqFiles == {[kind |-> "frq", rows |-> r] : r \in {<<>>} \cup {<<row>> : row \in MainRows}}

\* the intended (path, count) pairs: the first k .frq files, each with a count
Entries(k) == [1..k -> 0..MaxIndv]

\* the flat argument list of the pairs
FlatTokens(counts) ==
    [i \in 1..(2 * Len(counts)) |->
        IF i % 2 = 1 THEN FrqPaths[(i + 1) \div 2] ELSE CountText(counts[i \div 2])]

\* the manifest lines of the pairs; line `bad` has lost its count ("short") or
\* gained a token ("long")
ManifestLines(counts, bad, how) ==
    [i \in 1..Len(counts) |->
        IF i # bad THEN <<FrqPaths[i], CountText(counts[i])>>
        ELSE IF how = "short" THEN <<FrqPaths[i]>>
        ELSE <<FrqPaths[i], CountText(counts[i]), "extra">>]

\* the command lines: well formed (flat or manifest), a flat list that lost its
\* last token, a manifest with one bad line
CommandLines(counts) ==
    {[tokens |-> FlatTokens(counts), manifest |-> <<>>, has_manifest |-> FALSE] :
        x \in {y \in {1} : Len(counts) > 0}}
    \cup {[tokens |-> SubSeq(FlatTokens(counts), 1, 2 * Len(counts) - 1),
           manifest |-> <<>>, has_manifest |-> FALSE] :
            x \in {y \in {1} : Len(counts) > 0}}
    \cup {[tokens |-> <<ManifestPath>>, manifest |-> ManifestLines(counts, 0, "short"),
           has_manifest |-> TRUE]}
    \cup {[tokens |-> <<ManifestPath>>, manifest |-> ManifestLines(counts, b, h),
           has_manifest |-> TRUE] : <<b, h>> \in (1..Len(counts)) \X {"short", "long"}}

\* the file system: the first k .frq files, and the manifest when there is one
FileSystems(k, cl) ==
    {[p \in {FrqPaths[i] : i \in 1..k} \cup (IF cl.has_manifest THEN {ManifestPath} ELSE {}) |->
        IF p = ManifestPath THEN [kind |-> "manifest", lines |-> cl.manifest] ELSE f[p]] :
            f \in [{FrqPaths[i] : i \in 1..k} -> FrqFiles]}

Init ==
    /\ pc = "resolve"
    /\ \E k \in 0..MaxFiles : \E counts \in Entries(k) : \E cl \in CommandLines(counts) :
          /\ argv_file_list = cl.tokens
          /\ fs \in FileSystems(k, cl)
    /\ file_list = <<>>
    /\ miss_tolerance \in MissVals
    /\ error_tolerance \in ErrVals
    /\ num_div_loci = DefaultNumDivLoci
    /\ all_alleles = <<>>
    /\ InitResults

Spec == Init /\ [][Next]_vars

----------------------------------------------------------------------------
(* Properties *)

\* the (clade, allele_freqs) entries a list-valued map holds for a locus
EntriesAt(m, locus) == IF Has(m, locus) THEN Get(m, locus) ELSE <<>>
NoRepeatedKey(d) == \A i, j \in 1..Len(d) : d[i][1] = d[j][1] => i = j
AfterStep(done) == pc \notin done

\* C1: identify_fixed_alleles outputs a (locus, clade) entry exactly when the
\* clade's record has genotyped_fraction >= miss_tolerance and some allele
\* frequency >= 1 - error_tolerance, once per qualifying clade, and the entry
\* carries the clade's whole allele-frequency mapping.
C1_FixedExactlyWhenQualifying ==
    AfterStep({"identify_fixed"}) =>
        /\ NoRepeatedKey(fixed_alleles)
        /\ \A i \in 1..Len(fixed_alleles) :
              /\ Has(all_alleles, fixed_alleles[i][1])
              /\ fixed_alleles[i][2] # <<>>
              /\ NoRepeatedKey(fixed_alleles[i][2])
              /\ \A k \in 1..Len(fixed_alleles[i][2]) :
                    Has(Get(all_alleles, fixed_alleles[i][1]), fixed_alleles[i][2][k][1])
        /\ \A i \in 1..Len(all_alleles) : \A k \in 1..Len(all_alleles[i][2]) :
              LET clade == all_alleles[i][2][k][1]
                  rec == all_alleles[i][2][k][2]
                  out == EntriesAt(fixed_alleles, all_alleles[i][1])
                  qualifies ==
                      /\ rec.perc_genotyped >= miss_tolerance
                      /\ \E j \in 1..Len(rec.allele_freqs) :
                            /\ rec.allele_freqs[j][2] # NaN
                            /\ rec.allele_freqs[j][2] >= One - error_tolerance
              IN /\ Has(out, clade) <=> qualifies
                 /\ Has(out, clade) => Get(out, clade) = rec.allele_freqs

\* a table where one clade is fixed and another, with two alleles, is not
C1_Witness ==
    /\ pc = "find_unique_fixed"
    /\ miss_tolerance > 0
    /\ Len(fixed_alleles) = 1
    /\ \E k \in 1..Len(fixed_alleles[1][2]) : Len(fixed_alleles[1][2][k][2]) = 2
    /\ Len(all_alleles[1][2]) > Len(fixed_alleles[1][2])

\* the fixed allele of a clade: the first allele, in insertion order, whose
\* frequency no other allele of the clade exceeds
FixedAlleleOf(allele_freqs) ==
    allele_freqs[CHOOSE j \in 1..Len(allele_freqs) :
                    /\ \A k \in 1..Len(allele_freqs) : allele_freqs[k][2] <= allele_freqs[j][2]
                    /\ \A k \in 1..(j - 1) : allele_freqs[k][2] < allele_freqs[j][2]][1]

SharedFixedAllele(entries) ==
    \E j, k \in 1..Len(entries) :
        j # k /\ FixedAlleleOf(entries[j][2]) = FixedAlleleOf(entries[k][2])

\* C2: the output of find_unique_fixed_alleles holds no locus where two clades
\* share a fixed allele unless the locus has one fixed clade; a kept locus has
\* all of its fixed-clade entries; a locus failing the test is absent.
C2_UniqueFixedHasNoSharedAllele ==
    AfterStep({"identify_fixed", "find_unique_fixed"}) =>
        /\ NoRepeatedKey(unique_fixed_alleles)
        /\ \A i \in 1..Len(unique_fixed_alleles) :
              /\ Has(fixed_alleles, unique_fixed_alleles[i][1])
              /\ unique_fixed_alleles[i][2] = Get(fixed_alleles, unique_fixed_alleles[i][1])
              /\ \/ Len(unique_fixed_alleles[i][2]) = 1
                 \/ ~SharedFixedAllele(unique_fixed_alleles[i][2])
        /\ \A i \in 1..Len(fixed_alleles) :
              (Len(fixed_alleles[i][2]) > 1 /\ SharedFixedAllele(fixed_alleles[i][2]))
                  => ~Has(unique_fixed_alleles, fixed_alleles[i][1])

\* a kept locus with two fixed clades, one of them fixed by the tie-break
C2_Witness ==
    /\ pc = "identify_private"
    /\ Len(unique_fixed_alleles) = 1
    /\ Len(unique_fixed_alleles[1][2]) = 2
    /\ \E k \in 1..2 :
          /\ Len(unique_fixed_alleles[1][2][k][2]) = 2
          /\ unique_fixed_alleles[1][2][k][2][1][2] = unique_fixed_alleles[1][2][k][2][2][2]

SomeCladeMissing(clade_data) ==
    \E k \in 1..Len(clade_data) : clade_data[k][2].perc_genotyped = 0

\* C3: the output of identify_private_alleles holds no locus where any clade
\* has genotyped_fraction 0.
C3_NoPrivateAtLocusWithMissingClade ==
    AfterStep({"identify_fixed", "find_unique_fixed", "identify_private"}) =>
        \A i \in 1..Len(all_alleles) :
            SomeCladeMissing(all_alleles[i][2]) => ~Has(private_alleles, all_alleles[i][1])

\* a locus with a wholly ungenotyped clade and a genotyped clade that carries,
\* above the tolerance, an allele no other clade lists
C3_Witness ==
    /\ pc = "find_private_sites"
    /\ private_alleles = <<>>
    /\ \E i \in 1..Len(all_alleles) :
          LET cd == all_alleles[i][2]
          IN /\ SomeCladeMissing(cd)
             /\ \E k \in 1..Len(cd) :
                   /\ cd[k][2].perc_genotyped > 0
                   /\ \E j \in 1..Len(cd[k][2].allele_freqs) :
                         /\ cd[k][2].allele_freqs[j][2] > error_tolerance
                         /\ \A k2 \in 1..Len(cd) :
                               k2 # k => ~Has(cd[k2][2].allele_freqs, cd[k][2].allele_freqs[j][1])

SitesDone ==
    AfterStep({"identify_fixed", "find_unique_fixed", "identify_private", "find_private_sites"})

\* C4: no locus is in both private_sites and uniquely_missing_sites.
C4_PrivateAndUniquelyMissingDisjoint ==
    SitesDone => KeySet(private_sites) \cap KeySet(uniquely_missing_sites) = {}

\* a private site: one genotyped clade, two missing ones
C4_Witness ==
    /\ pc = "compute_divergence"
    /\ Len(private_sites) = 1
    /\ Len(all_alleles[1][2]) = 3
    /\ uniquely_missing_sites = <<>>

GenotypedPairs(clade_data) ==
    {<<clade_data[k][1], clade_data[k][2].perc_genotyped>> :
        k \in {k2 \in 1..Len(clade_data) : clade_data[k2][2].perc_genotyped > 0}}
ExactlyOneMissing(clade_data) ==
    /\ Cardinality({k \in 1..Len(clade_data) : clade_data[k][2].perc_genotyped = 0}) = 1
    /\ Cardinality({k \in 1..Len(clade_data) : clade_data[k][2].perc_genotyped > 0}) > 1

\* C7: a locus with exactly one clade at genotyped_fraction 0 and more than one
\* above 0 is in uniquely_missing_sites, mapped to the genotyped clades and
\* only those with their genotyped_fractions, and is not in private_sites.
C7_OneMissingIsUniquelyMissing ==
    SitesDone =>
        \A i \in 1..Len(all_alleles) :
            ExactlyOneMissing(all_alleles[i][2]) =>
                /\ Has(uniquely_missing_sites, all_alleles[i][1])
                /\ NoRepeatedKey(Get(uniquely_missing_sites, all_alleles[i][1]))
                /\ {Get(uniquely_missing_sites, all_alleles[i][1])[k] :
                       k \in 1..Len(Get(uniquely_missing_sites, all_alleles[i][1]))}
                     = GenotypedPairs(all_alleles[i][2])
                /\ ~Has(private_sites, all_alleles[i][1])

\* clade B missing while A and C are genotyped
C7_Witness ==
    /\ pc = "compute_divergence"
    /\ Len(all_alleles[1][2]) = 3
    /\ all_alleles[1][2][2][2].perc_genotyped = 0
    /\ ExactlyOneMissing(all_alleles[1][2])
    /\ Len(uniquely_missing_sites) = 1

\* the frequency of an allele in a clade record is above the tolerance
Above(rec, allele, err) ==
    \E j \in 1..Len(rec.allele_freqs) :
        /\ rec.allele_freqs[j][1] = allele
        /\ rec.allele_freqs[j][2] # NaN
        /\ rec.allele_freqs[j][2] > err

Skipped(clade_data) ==
    \E k \in 1..Len(clade_data) :
        \/ clade_data[k][2].perc_genotyped = 0
        \/ \E j \in 1..Len(clade_data[k][2].allele_freqs) :
              clade_data[k][2].allele_freqs[j][2] = NaN

\* the alleles reported private for a clade at a locus
PrivateOf(locus, clade) ==
    IF Has(private_alleles, locus) /\ Has(Get(private_alleles, locus), clade)
    THEN Get(Get(private_alleles, locus), clade) ELSE <<>>

\* C10: at a locus that is not skipped, (clade, allele) is in the private-allele
\* output exactly when the allele's frequency in the clade is > error_tolerance
\* and no other clade has it > error_tolerance; the entry carries that frequency
\* and the clade's genotyped_fraction; an allele is private for at most one clade.
C10_PrivateExactlyWhenAloneAboveTolerance ==
    AfterStep({"identify_fixed", "find_unique_fixed", "identify_private"}) =>
        \A i \in 1..Len(all_alleles) :
            LET locus == all_alleles[i][1]
                cd == all_alleles[i][2]
            IN ~Skipped(cd) =>
                /\ \A k \in 1..Len(cd) : \A a \in Alleles :
                      LET out == PrivateOf(locus, cd[k][1])
                          private ==
                              /\ Above(cd[k][2], a, error_tolerance)
                              /\ \A k2 \in 1..Len(cd) :
                                    k2 # k => ~Above(cd[k2][2], a, error_tolerance)
                      IN /\ NoRepeatedKey(out)
                         /\ Has(out, a) <=> private
                         /\ Has(out, a) =>
                               Get(out, a) = [freq |-> Get(cd[k][2].allele_freqs, a),
                                              perc_genotyped |-> cd[k][2].perc_genotyped]
                /\ \A a \in Alleles :
                      Cardinality({k \in 1..Len(cd) : Has(PrivateOf(locus, cd[k][1]), a)}) <= 1
                /\ \A c \in KeySet(EntriesAt(private_alleles, locus)) : Has(cd, c)

\* three clades: an allele private to one clade is reported, an allele two
\* clades carry is not
C10_Witness ==
    /\ pc = "find_private_sites"
    /\ Len(all_alleles[1][2]) = 3
    /\ Len(private_alleles) = 1
    /\ Len(private_alleles[1][2]) = 1
    /\ \E a \in Alleles :
          Cardinality({k \in 1..3 : Above(all_alleles[1][2][k][2], a, error_tolerance)}) = 2

\* the maximum and the minimum of frequencies, NaN when any of them is NaN
MaxOf(S) == IF NaN \in S THEN NaN ELSE CHOOSE x \in S : \A y \in S : y <= x
MinOf(S) == IF NaN \in S THEN NaN ELSE CHOOSE x \in S : \A y \in S : x <= y
FreqIn(rec, allele) ==
    IF Has(rec.allele_freqs, allele) THEN Get(rec.allele_freqs, allele) ELSE 0
Spread(clade_data, allele) ==
    LET S == {FreqIn(clade_data[k][2], allele) : k \in 1..Len(clade_data)}
    IN FSub(MaxOf(S), MinOf(S))
RECURSIVE SpreadSum(_, _)
SpreadSum(clade_data, alleles) ==
    IF alleles = {} THEN 0
    ELSE LET a == CHOOSE x \in alleles : TRUE
         IN FAdd(Spread(clade_data, a), SpreadSum(clade_data, alleles \ {a}))
RECURSIVE PercSum(_, _)
PercSum(clade_data, k) ==
    IF k = 0 THEN 0 ELSE clade_data[k][2].perc_genotyped + PercSum(clade_data, k - 1)

\* C6: compute_divergence_scores has an entry for a locus exactly when the locus
\* has at least 2 clade records; the score is the sum over the alleles seen in
\* any clade of (maximum - minimum frequency across clades, absent = 0), and the
\* paired value is the mean of genotyped_fraction over the clades present.
C6_ScoreIsSumOfSpreads ==
    AfterStep({"identify_fixed", "find_unique_fixed", "identify_private",
               "find_private_sites", "compute_divergence"}) =>
        /\ NoRepeatedKey(divergence_scores)
        /\ \A i \in 1..Len(all_alleles) :
              LET locus == all_alleles[i][1]
                  cd == all_alleles[i][2]
                  seen == UNION {{cd[k][2].allele_freqs[j][1] :
                                    j \in 1..Len(cd[k][2].allele_freqs)} : k \in 1..Len(cd)}
              IN /\ Has(divergence_scores, locus) <=> Len(cd) >= 2
                 /\ Has(divergence_scores, locus) =>
                       /\ Get(divergence_scores, locus)[1] = SpreadSum(cd, seen)
                       /\ Get(divergence_scores, locus)[2].num
                            = PercSum(cd, Len(cd))
                       /\ Get(divergence_scores, locus)[2].den = Len(cd)

\* the same statement on the loci where no frequency is NaN
C6_ScoreIsSumOfSpreadsWithoutNaN ==
    AfterStep({"identify_fixed", "find_unique_fixed", "identify_private",
               "find_private_sites", "compute_divergence"}) =>
        \A i \in 1..Len(all_alleles) :
            LET locus == all_alleles[i][1]
                cd == all_alleles[i][2]
                seen == UNION {{cd[k][2].allele_freqs[j][1] :
                                  j \in 1..Len(cd[k][2].allele_freqs)} : k \in 1..Len(cd)}
                HasNaN == \E k \in 1..Len(cd) : \E j \in 1..Len(cd[k][2].allele_freqs) :
                              cd[k][2].allele_freqs[j][2] = NaN
            IN /\ Has(divergence_scores, locus) <=> Len(cd) >= 2
               /\ (Has(divergence_scores, locus) /\ ~HasNaN) =>
                     /\ Get(divergence_scores, locus)[1] = SpreadSum(cd, seen)
                     /\ Get(divergence_scores, locus)[2].num = PercSum(cd, Len(cd))
                     /\ Get(divergence_scores, locus)[2].den = Len(cd)

\* the positions of the divergence map whose score is not NaN
ValidPositions == {i \in 1..Len(divergence_scores) : divergence_scores[i][2][1] # NaN}
PositionOf(e) == CHOOSE i \in 1..Len(divergence_scores) : divergence_scores[i] = e
KeyOf(score) == IF score % 3 = 2 THEN score + 1 ELSE score - (score % 3)
MinInt(a, b) == IF a < b THEN a ELSE b

\* C5: for n >= 0 the ranking has min(n, number of loci with a non-NaN score)
\* entries, each a non-NaN entry of the map taken once, in descending order of
\* the score rounded to 6 decimals, entries of equal rounded score in their
\* order in the map, and no entry left out ranks before one that was taken.
C5_TopNSortedStable ==
    (pc = "write_fixed" /\ num_div_loci >= 0) =>
        /\ Len(sorted_loci) = MinInt(num_div_loci, Cardinality(ValidPositions))
        /\ \A r \in 1..Len(sorted_loci) :
              \E i \in ValidPositions : divergence_scores[i] = sorted_loci[r]
        /\ \A r1, r2 \in 1..Len(sorted_loci) :
              r1 < r2 =>
                 LET k1 == KeyOf(sorted_loci[r1][2][1])
                     k2 == KeyOf(sorted_loci[r2][2][1])
                 IN /\ k1 >= k2
                    /\ k1 = k2 => PositionOf(sorted_loci[r1]) < PositionOf(sorted_loci[r2])
        /\ \A i \in ValidPositions :
              (\A r \in 1..Len(sorted_loci) : sorted_loci[r] # divergence_scores[i]) =>
                 \A r \in 1..Len(sorted_loci) :
                    LET ki == KeyOf(divergence_scores[i][2][1])
                        kr == KeyOf(sorted_loci[r][2][1])
                    IN kr > ki \/ (kr = ki /\ PositionOf(sorted_loci[r]) < i)

\* a NaN score filtered out, a cut below the number of valid scores, and two
\* ranked entries whose scores differ but round to the same key
C5_Witness ==
    /\ pc = "write_fixed"
    /\ num_div_loci = 2
    /\ Cardinality(ValidPositions) = 2
    /\ Len(divergence_scores) = 3
    /\ Len(sorted_loci) = 2
    /\ sorted_loci[1][2][1] < sorted_loci[2][2][1]

\* some input of the resolved file list has expected_individual_count 0
ZeroCount == \E i \in 1..Len(file_list) : file_list[i][2] = 0

\* C8: with a zero expected_individual_count the aggregator fails with a
\* MalformedRecordError and returns no table: no such run gets past aggregation.
C8_ZeroCountFailsAggregation ==
    (ZeroCount /\ pc \notin {"resolve", "process_files"}) =>
        (pc = "failed" /\ error = "MalformedRecordError")

\* what is true of the code: no run with a zero count that reads a data row of
\* that file gets past aggregation
C8_ZeroCountWithRowsStops ==
    (pc \notin {"resolve", "process_files", "failed"}) =>
        \A i \in 1..Len(file_list) :
            file_list[i][2] = 0 => fs[file_list[i][1]].rows = <<>>

\* the command line is a manifest (one token naming a file) or a flat list
IsManifest == Len(argv_file_list) = 1 /\ argv_file_list[1] \in DOMAIN fs
TokensOfLine(path, i) ==
    IF fs[path].kind = "manifest" THEN Len(fs[path].lines[i])
    ELSE IF i = 1 THEN 5 ELSE 4 + Len(fs[path].rows[i - 1].cells)
LinesOf(path) ==
    IF fs[path].kind = "manifest" THEN Len(fs[path].lines) ELSE 1 + Len(fs[path].rows)
Malformed ==
    IF IsManifest
    THEN \E i \in 1..LinesOf(argv_file_list[1]) : TokensOfLine(argv_file_list[1], i) # 2
    ELSE Len(argv_file_list) % 2 = 1

\* C9: a run whose command line is malformed (a manifest line without exactly
\* two tokens, a flat list of odd length) ends with the usage error before
\* process_files, any classifier or any writer: no output file is ever written.
C9_MalformedCommandLineWritesNothing ==
    Malformed =>
        /\ pc \in {"resolve", "failed"}
        /\ pc = "failed" => error = "ValueError"
        /\ written = {}
        /\ file_list = <<>>
        /\ all_alleles = <<>>

\* a manifest whose second line is bad, after a good first line
C9_Witness ==
    /\ pc = "failed"
    /\ error = "ValueError"
    /\ IsManifest
    /\ LinesOf(argv_file_list[1]) >= 2
    /\ TokensOfLine(argv_file_list[1], 1) = 2
    /\ TokensOfLine(argv_file_list[1], 2) # 2

\* a flat list of odd length, three tokens or more
C9_WitnessFlat ==
    /\ pc = "failed"
    /\ ~IsManifest
    /\ Len(argv_file_list) >= 3
    /\ Malformed

====
